---- MODULE Spec2Model ----
(***************************************************************************)
(* The draft-order checkout handler (src/unnamed/part_000): one serverless *)
(* process serving requests that share the variant cache.                 *)
(*                                                                         *)
(* JavaScript runs a handler to completion between two network awaits, so  *)
(* an action is the arrival of a request or the completion of a network    *)
(* call, together with all the code the handler then runs up to its next   *)
(* network call or its response.  An await of a cache hit resumes in a     *)
(* microtask of the same turn: it does not let another request in.         *)
(*                                                                         *)
(* Strings the code trims, lowercases or searches are sequences of         *)
(* one-character strings.  Numbers the code converts with Number() are     *)
(* records: NaN, Infinity or a finite value.                               *)
(* Numbers are held in hundredths (2.7 is 270, 1250.00 is 125000).         *)
(* A field of the request body is drawn at the statement that first uses   *)
(* it: the fields are independent inputs fixed by the client.              *)
(***************************************************************************)
EXTENDS Integers, Sequences, FiniteSets, TLC

VARIABLES cache, env, req, calc

vars == <<cache, env, req, calc>>

-----------------------------------------------------------------------------
(* Bounds of the model *)

\* requests served during the process lifetime (they may overlap)
NumRequests == 2
\* longest `items` array of a request body
MaxItems == 2
\* longest list handed to uniqEmails in the specification of the pure function
MaxEmails == 3
\* longest calculatorData key handed to the label formatter on its own
MaxKeyLen == 4
\* most entries of a calculatorData object handed to buildLegacyLineItem
MaxDataKeys == 3
\* longest `items` array of a request in the specification with fairness
MaxLiveItems == 1

Requests == 1..NumRequests

-----------------------------------------------------------------------------
(* JavaScript values *)

NaN == [k |-> "nan"]
Infinity == [k |-> "inf"]
Fin(v) == [k |-> "fin", v |-> v]

\* a string value, of the characters s
Str(s) == [k |-> "string", s |-> s]

\* Number.isFinite
IsFinite(n) == n.k = "fin"

\* (a variant that drops the fraction)
MathFloor(n) == n.v \div 100

\* Math.round of a finite value held in hundredths: floor(x + 0.5)
MathRound(n) == (n.v + 50) \div 100

IsSpace(c) == c = " "

RECURSIVE TrimStart(_)
TrimStart(s) ==
  IF s # <<>> /\ IsSpace(Head(s)) THEN TrimStart(Tail(s)) ELSE s

RECURSIVE TrimEnd(_)
TrimEnd(s) ==
  IF s # <<>> /\ IsSpace(s[Len(s)]) THEN TrimEnd(SubSeq(s, 1, Len(s) - 1)) ELSE s

\* String.prototype.trim
Trim(s) == TrimEnd(TrimStart(s))

DigitChars == <<"0", "1", "2", "3", "4", "5", "6", "7", "8", "9">>

\* the value of a decimal digit, or -1 for another character
DigitOf(c) ==
  IF \E d \in 1..10 : DigitChars[d] = c
  THEN (CHOOSE d \in 1..10 : DigitChars[d] = c) - 1
  ELSE 0 - 1

\* the natural number a string of decimal digits denotes
RECURSIVE NaturalOf(_)
NaturalOf(s) ==
  IF s = <<>> THEN 0
  ELSE 10 * NaturalOf(SubSeq(s, 1, Len(s) - 1)) + DigitOf(s[Len(s)])

AllDigits(s) == s # <<>> /\ \A i \in 1..Len(s) : DigitOf(s[i]) >= 0

\* Number(s) of a string of digits, letters, spaces and minus signs: the
\* blank string is 0, an integer numeral is its value, anything else NaN
StringToNumber(s) ==
  LET t == Trim(s)
  IN  IF t = <<>> THEN Fin(0)
      ELSE IF AllDigits(t) THEN Fin(100 * NaturalOf(t))
      ELSE IF Head(t) = "-" /\ AllDigits(Tail(t)) THEN Fin(0 - 100 * NaturalOf(Tail(t)))
      ELSE NaN

LowerChar(c) ==
  CASE c = "A" -> "a"
    [] c = "B" -> "b"
    [] c = "X" -> "x"
    [] OTHER -> c

\* String.prototype.toLowerCase
ToLowerCase(s) == [i \in 1..Len(s) |-> LowerChar(s[i])]

\* String.prototype.includes, for a one-character needle
Includes(s, c) == \E i \in 1..Len(s) : s[i] = c

-----------------------------------------------------------------------------
(* uniqEmails *)

\* An entry of the list is a string or absent (undefined, null, ""):
\* String(raw || "") of an absent entry is "".
AbsentStr == <<>>

NormalizeEmail(raw) == ToLowerCase(Trim(raw))

\* (a variant that keeps every non-empty entry)
KeepEmailWithoutAt(e) == e # <<>>

\* if (!e || !e.includes("@")) continue: the entry is kept
KeepEmail(e) == e # <<>> /\ Includes(e, "@")

RECURSIVE uniqEmailsFrom(_, _)
uniqEmailsFrom(list, out) ==
  IF list = <<>> THEN out
  ELSE LET e == NormalizeEmail(Head(list))
           seen == {out[i] : i \in 1..Len(out)}
       IN  IF ~KeepEmail(e) THEN uniqEmailsFrom(Tail(list), out)
           ELSE IF e \in seen THEN uniqEmailsFrom(Tail(list), out)
           ELSE uniqEmailsFrom(Tail(list), Append(out, e))

uniqEmails(list) == uniqEmailsFrom(list, <<>>)

\* notifyEmails is an array or is not one (absent, or another JSON value)
NotArray == [k |-> "notArray"]
Arr(s) == [k |-> "array", a |-> s]
IsArray(x) == x.k = "array"

\* handler: the list handed to uniqEmails
Recipients(notifyEmails, accountManagerEmail) ==
  uniqEmails((IF IsArray(notifyEmails) THEN notifyEmails.a ELSE <<>>)
             \o <<accountManagerEmail>>)

-----------------------------------------------------------------------------
(* The request body *)

Undefined == [k |-> "undefined"]
Text == [k |-> "text"]

\* Number(x) of a JSON value: undefined and non-numeric text give NaN, a
\* string is parsed
ToNumber(x) ==
  IF x.k \in {"undefined", "text"} THEN NaN
  ELSE IF x.k = "string" THEN StringToNumber(x.s)
  ELSE x

\* !x of a JSON value: undefined, "", 0 and NaN are falsy
Falsy(x) == x.k \in {"undefined", "nan"} \/ x = Str(<<>>) \/ x = Fin(0)

\* x || 0 and then Number(): an absent quantity is 0
NumberOrZero(x) == IF x.k = "undefined" THEN Fin(0) ELSE ToNumber(x)

NullItem == [k |-> "null"]
Obj(h, q) == [k |-> "object", handle |-> h, quantity |-> q]

\* String(raw?.handle || "").trim()
HandleOf(raw) == IF raw.k = "object" THEN Trim(raw.handle) ELSE <<>>

\* Number(raw?.quantity || 0)
QtyOf(raw) == IF raw.k = "object" THEN NumberOrZero(raw.quantity) ELSE Fin(0)

\* (a variant that does not test the quantity against zero)
SurvivesAnyQuantity(raw) ==
  /\ HandleOf(raw) # <<>>
  /\ IsFinite(QtyOf(raw))

\* the two `continue` tests of the item loops: the item is kept
Survives(raw) ==
  /\ HandleOf(raw) # <<>>
  /\ IsFinite(QtyOf(raw))
  /\ QtyOf(raw).v > 0

\* (a variant that takes every array, the empty one included)
UseRealItemsAnyArray(items) == IsArray(items)

\* const useRealItems = Array.isArray(items) && items.length > 0
UseRealItems(items) == IsArray(items) /\ Len(items.a) > 0

\* i.handle of the plain-text item listing throws on a null entry
TextListingThrows(items) ==
  UseRealItems(items) /\ \E i \in 1..Len(items.a) : items.a[i].k = "null"

ItemValues ==
  { NullItem,
    Obj(<<"m">>, Fin(270)),
    Obj(<<"m", " ">>, Fin(100)),
    Obj(<<"b">>, Fin(40)),
    Obj(<<" ">>, Fin(100)),
    Obj(<<"m">>, Fin(0)) }

RECURSIVE SeqsUpTo(_, _)
SeqsUpTo(S, n) ==
  IF n = 0 THEN {<<>>}
  ELSE LET shorter == SeqsUpTo(S, n - 1)
       IN  shorter \cup {Append(s, x) : s \in shorter, x \in S}

ItemsInputs == {NotArray} \cup {Arr(s) : s \in SeqsUpTo(ItemValues, MaxItems)}

PriceInputs == {Undefined, Text, Infinity, Fin(0 - 500), Fin(0), Fin(125000)}

\* notifyEmails and accountManagerEmail of a request: both absent, or both given
NotifyInputs ==
  { [notifyEmails |-> NotArray, accountManagerEmail |-> AbsentStr],
    [notifyEmails |-> Arr(<< <<"A", "@", "x", ".", "c", "o", "m">>,
                             <<"a", "@", "x", ".", "c", "o", "m">>,
                             <<"b", "a", "d">> >>),
     accountManagerEmail |-> <<"b", "@", "x", ".", "c", "o", "m">>] }

-----------------------------------------------------------------------------
(* The collaborators *)

\* What the product catalog holds for a handle: its title ("" when it has
\* none) and the legacyResourceId of its first variant (the catalog writes
\* the identifier as a string of digits).
Product(title, id) == [k |-> "product", title |-> title, legacyResourceId |-> id]
NoProduct == [k |-> "null"]

Catalog(key) ==
  IF key = <<"m">> THEN Product(<<"M">>, Str(<<"1", "1", "1">>))
  ELSE Product(<<>>, Str(<<"2", "2", "2">>))

\* A reply to a catalog lookup: the HTTP status, whether the JSON carries a
\* non-empty `errors` list, and data.productByHandle (legacyResourceId
\* undefined: the product has no variant).
Reply(status, errors, product) ==
  [status |-> status, errors |-> errors, product |-> product]

CatalogReplies(key) ==
  { Reply(200, FALSE, Catalog(key)),
    Reply(200, FALSE, NoProduct),
    Reply(200, FALSE, Product(<<"M">>, Undefined)),
    Reply(200, TRUE, NoProduct),
    Reply(503, FALSE, NoProduct) }

\* (a variant that takes every status below 500 for a success)
OkBelow500(status) == status < 500

\* Response.ok
Ok(status) == status >= 200 /\ status <= 299

\* A reply to the order-creation call: the status and the parsed JSON
\* ({} when the body does not parse): its `errors` and its `draft_order`.
\* The record's fields are values the backend assigns to this order; a field
\* read through ?. off a missing record is undefined.
Val(field, r) == [k |-> field, of |-> r]

NoRecord == [k |-> "undefined"]
OrderRecord(r) ==
  [k |-> "draft_order", id |-> Val("id", r), name |-> Val("name", r),
   invoice_url |-> Val("invoice_url", r), total_price |-> Val("total_price", r)]

\* draftOrder?.field
Field(record, field) ==
  IF record.k = "undefined" THEN Undefined ELSE record[field]

OrderReplies(r) ==
  { [status |-> 201, errors |-> FALSE, draft_order |-> OrderRecord(r)],
    [status |-> 200, errors |-> FALSE, draft_order |-> NoRecord],
    [status |-> 422, errors |-> TRUE, draft_order |-> NoRecord],
    [status |-> 503, errors |-> FALSE, draft_order |-> NoRecord] }

\* details: json?.errors || json
Details(reply) ==
  IF reply.errors THEN [k |-> "errors", of |-> reply.status]
  ELSE [k |-> "json", of |-> reply.status]

-----------------------------------------------------------------------------
(* buildLegacyLineItem *)

Lower == <<"a", "b", "c", "d", "e", "f", "g", "h", "i", "j", "k", "l", "m",
           "n", "o", "p", "q", "r", "s", "t", "u", "v", "w", "x", "y", "z">>
Upper == <<"A", "B", "C", "D", "E", "F", "G", "H", "I", "J", "K", "L", "M",
           "N", "O", "P", "Q", "R", "S", "T", "U", "V", "W", "X", "Y", "Z">>

\* [A-Z]
IsCapital(c) == \E i \in 1..Len(Upper) : Upper[i] = c

\* String.prototype.toUpperCase of one character
UpperChar(c) ==
  IF \E i \in 1..Len(Lower) : Lower[i] = c
  THEN Upper[CHOOSE i \in 1..Len(Lower) : Lower[i] = c]
  ELSE c

\* .replace(/([A-Z])/g, " $1")
RECURSIVE SpaceCapitals(_)
SpaceCapitals(s) ==
  IF s = <<>> THEN <<>>
  ELSE (IF IsCapital(Head(s)) THEN <<" ", Head(s)>> ELSE <<Head(s)>>)
       \o SpaceCapitals(Tail(s))

\* .replace(/_/g, " ")
SpaceUnderscores(s) == [i \in 1..Len(s) |-> IF s[i] = "_" THEN " " ELSE s[i]]

\* .split(" "): the words between the spaces, empty ones included
RECURSIVE SplitFrom(_, _)
SplitFrom(s, word) ==
  IF s = <<>> THEN <<word>>
  ELSE IF Head(s) = " " THEN <<word>> \o SplitFrom(Tail(s), <<>>)
  ELSE SplitFrom(Tail(s), Append(word, Head(s)))

Split(s) == SplitFrom(s, <<>>)

\* (a variant that leaves the word as it is)
UpperFirstNot(w) == w

\* w ? w[0].toUpperCase() + w.slice(1) : w
UpperFirst(w) == IF w = <<>> THEN w ELSE <<UpperChar(Head(w))>> \o Tail(w)

\* .join(" ")
RECURSIVE Join(_)
Join(words) ==
  IF words = <<>> THEN <<>>
  ELSE IF Len(words) = 1 THEN Head(words)
  ELSE Head(words) \o <<" ">> \o Join(Tail(words))

\* the label of a calculatorData key
Label(k) ==
  LET words == Split(Trim(SpaceUnderscores(SpaceCapitals(k))))
  IN  Join([i \in 1..Len(words) |-> UpperFirst(words[i])])

\* the decimal digits of a natural number
RECURSIVE Digits(_)
Digits(n) ==
  IF n < 10 THEN <<DigitChars[n + 1]>>
  ELSE Digits(n \div 10) \o <<DigitChars[(n % 10) + 1]>>

\* price.toFixed(2), for a price above zero held in hundredths
ToFixed2(price) ==
  Digits(price.v \div 100)
  \o <<".", DigitChars[((price.v % 100) \div 10) + 1], DigitChars[(price.v % 10) + 1]>>

\* price <= 0 or not finite: buildLegacyLineItem throws
BadPrice(price) == IF IsFinite(price) THEN price.v <= 0 ELSE TRUE

\* the line item buildLegacyLineItem returns, without its title and properties
LegacyLineItem(price) ==
  [price |-> ToFixed2(price), quantity |-> 1, requires_shipping |-> FALSE,
   taxable |-> TRUE]

CalculatorTypeName ==
  <<"C", "a", "l", "c", "u", "l", "a", "t", "o", "r", " ", "T", "y", "p", "e">>
QuoteDateName == <<"Q", "u", "o", "t", "e", " ", "D", "a", "t", "e">>
DefaultType == <<"C", "a", "l", "c", "u", "l", "a", "t", "o", "r">>
QuoteOrder == <<" ", "Q", "u", "o", "t", "e", " ", "O", "r", "d", "e", "r">>
TimestampKey == <<"t", "i", "m", "e", "s", "t", "a", "m", "p">>
CalculatorKey == <<"c", "a", "l", "c", "u", "l", "a", "t", "o", "r">>

\* calculatorType || "Calculator" (an absent type is the empty string)
TypeOrDefault(calculatorType) ==
  IF calculatorType = <<>> THEN DefaultType ELSE calculatorType

\* calculatorData: an object is the list of its entries (key, value) in
\* insertion order; anything else is undefined, null or a string
Entries(e) == [k |-> "object", entries |-> e]
Entry(key, value) == [key |-> key, value |-> value]

\* String(v) of a value of calculatorData
StringOf(v) == [k |-> "string", of |-> v]

\* new Date().toISOString() at the time `now`
IsoString(now) == [k |-> "iso", of |-> now]

\* (a variant that skips no key)
ReservedKeyNone(k) == FALSE

\* k === "timestamp" || k === "calculator"
ReservedKey(k) == k = TimestampKey \/ k = CalculatorKey

\* the loop over Object.entries(calculatorData)
RECURSIVE DataProperties(_)
DataProperties(entries) ==
  IF entries = <<>> THEN <<>>
  ELSE (IF ReservedKey(Head(entries).key) THEN <<>>
        ELSE <<[name |-> Label(Head(entries).key),
                value |-> StringOf(Head(entries).value)]>>)
       \o DataProperties(Tail(entries))

Thrown(message) == [k |-> "thrown", message |-> message]

buildLegacyLineItem(calculatorType, calculatorData, totalPrice, now) ==
  LET price == ToNumber(totalPrice)
      properties ==
        <<[name |-> CalculatorTypeName, value |-> TypeOrDefault(calculatorType)]>>
        \o (IF calculatorData.k = "object"
            THEN DataProperties(calculatorData.entries) ELSE <<>>)
        \o <<[name |-> QuoteDateName, value |-> IsoString(now)]>>
  IN  IF BadPrice(price)
      THEN Thrown("totalPrice must be a valid number > 0")
      ELSE [k |-> "lineItem",
            title |-> TypeOrDefault(calculatorType) \o QuoteOrder,
            price |-> LegacyLineItem(price).price,
            quantity |-> LegacyLineItem(price).quantity,
            requires_shipping |-> LegacyLineItem(price).requires_shipping,
            taxable |-> LegacyLineItem(price).taxable,
            properties |-> properties]

-----------------------------------------------------------------------------
(* The variant cache and resolveVariantByHandle *)

NotCached == [k |-> "absent"]

Keys == {HandleOf(i) : i \in ItemValues} \ {<<>>}

\* (a variant that never finds an entry)
CacheHitNever(c, key) == FALSE

\* _cache.has(key), for the cache c
CacheHit(c, key) == c[key] # NotCached

\* (a variant that empties the cache before it stores)
StoreAlone(c, key, resolved) ==
  [k \in DOMAIN c |-> IF k = key THEN resolved ELSE NotCached]

\* (a variant that stores nothing)
StoreNothing(c, key, resolved) == c

\* _cache.set(key, resolved), for the cache c
Store(c, key, resolved) == [c EXCEPT ![key] = resolved]

\* the error shopifyGraphql throws for a reply, or "" when it returns data
GraphqlError(reply) ==
  IF ~Ok(reply.status) THEN "Shopify GraphQL error"
  ELSE IF reply.errors THEN "Shopify GraphQL errors"
  ELSE ""

\* (a variant that only tests the product)
NotFoundOnlyNull(product) == product.k = "null"

\* !product || !legacyResourceId
NotFound(product) ==
  IF product.k = "null" THEN TRUE ELSE Falsy(product.legacyResourceId)

\* the resolved variant built from a product
Resolved(key, product) ==
  [handle |-> key,
   title |-> IF product.title = <<>> THEN key ELSE product.title,
   variantId |-> ToNumber(product.legacyResourceId)]

-----------------------------------------------------------------------------
(* The state *)

Unread == [k |-> "unread"]
NoResponse == [status |-> 0]

\* A request before it arrives.  `calls` lists the outbound calls the request
\* has issued so far, `catalogReply` and `orderReply` the latest replies it
\* got, `res` its calls of resolveVariantByHandle (the cache
\* entry found on entry, the lookups issued, the result returned), `mail` what
\* became of sendMail, `sent` the number of responses written to `res`.
NewRequest ==
  [pc |-> "idle", items |-> Unread, idx |-> 0, key |-> <<>>, site |-> "",
   lineItems |-> <<>>, tags |-> <<>>, totalPrice |-> Unread,
   notifyEmails |-> Unread, accountManagerEmail |-> <<>>, recipients |-> <<>>,
   rows |-> <<>>, catalogReply |-> Unread, orderReply |-> Unread, mail |-> "", response |-> NoResponse,
   calls |-> <<>>, res |-> <<>>, sent |-> 0]

NoCalc == [op |-> "none"]

\* process.env: the shop credentials and the SMTP settings are set or missing
Envs == [shopify : {"set", "missing"}, smtp : {"set", "missing"}]

Init ==
  /\ cache = [key \in Keys |-> NotCached]
  /\ env \in Envs
  /\ req = [r \in Requests |-> NewRequest]
  /\ calc = NoCalc

\* res.status(status).json(body), and the handler returns
Respond(rec, status, body) ==
  [rec EXCEPT !.pc = "done", !.response = [status |-> status, body |-> body],
              !.sent = @ + 1]

\* (a variant that answers with the message only)
InternalErrorBare(rec, message) == Respond(rec, 500, [message |-> message])

\* the catch of the handler: 500 with the message of the error
InternalError(rec, message) ==
  Respond(rec, 500, [error |-> "Internal server error", message |-> message])

\* the final res.status(200).json({success: true, ...})
Success(rec) ==
  LET draftOrder == rec.orderReply.draft_order
  IN  Respond(rec, 200,
        [success |-> TRUE,
         checkoutUrl |-> Field(draftOrder, "invoice_url"),
         draftOrderId |-> Field(draftOrder, "id"),
         orderName |-> Field(draftOrder, "name"),
         totalPrice |-> Field(draftOrder, "total_price")])

\* the fetch of a catalog lookup or of the order creation, or sendMail, is issued
Issue(rec, call) == [rec EXCEPT !.calls = Append(@, call)]

LookupCall(key) == [to |-> "catalog", key |-> key]
OrderCall == [to |-> "order", key |-> <<>>]
MailCall == [to |-> "mail", key |-> <<>>]

\* (a variant that sends the mail before it creates the order)
SubmitOrderAfterMail(rec) ==
  Issue(Issue([rec EXCEPT !.pc = "awaitOrder"], MailCall), OrderCall)

\* the fetch of the order creation (the handler then awaits its reply)
SubmitOrder(rec) == Issue([rec EXCEPT !.pc = "awaitOrder"], OrderCall)

\* lineItems.push({ variant_id: resolved.variantId, quantity: Math.round(qty) })
PushLineItem(rec, resolved) ==
  [rec EXCEPT !.lineItems = Append(@, [variant_id |-> resolved.variantId,
                                        quantity |-> MathRound(QtyOf(rec.items.a[rec.idx]))]),
              !.idx = @ + 1]

\* rows.push(title (handle) - Qty: n)
PushRow(rec, resolved) ==
  [rec EXCEPT !.rows = Append(@, [title |-> resolved.title, handle |-> resolved.handle,
                                  qty |-> MathRound(QtyOf(rec.items.a[rec.idx]))]),
              !.idx = @ + 1]

\* resolveVariantByHandle returns `resolved` to its call site
Take(rec, resolved) ==
  LET got == [rec EXCEPT !.res[Len(rec.res)].result = resolved]
  IN  IF rec.site = "build" THEN PushLineItem(got, resolved) ELSE PushRow(got, resolved)

\* resolveVariantByHandle is entered for `key` with the cache c
Enter(rec, c, key) ==
  [rec EXCEPT !.res = Append(@, [key |-> key,
                                 cached |-> IF key \in DOMAIN c THEN c[key] ELSE NotCached,
                                 issued |-> 0, result |-> NotCached])]

\* resolveVariantByHandle issues its lookup and awaits the reply
Lookup(rec, key) ==
  Issue([rec EXCEPT !.pc = "awaitCatalog", !.key = key,
                    !.res[Len(rec.res)].issued = 1], LookupCall(key))

\* the plain-text and html bodies, then sendInternalEmail up to sendMail
Compose(rec, e) ==
  IF TextListingThrows(rec.items) THEN InternalError(rec, "TypeError")
  ELSE IF e.smtp = "missing" THEN Success([rec EXCEPT !.mail = "skipped"])
  ELSE Issue([rec EXCEPT !.pc = "awaitMail"], MailCall)

\* The handler runs on from an item loop (site "build": the line items; site
\* "notify": the rows of the notification) with the cache c, up to its next
\* network call or its response.
RECURSIVE Run(_, _, _)
Run(rec, c, e) ==
  IF rec.idx > Len(rec.items.a) THEN
    IF rec.site = "notify" THEN Compose(rec, e)
    ELSE IF rec.lineItems = <<>> THEN
      Respond(rec, 400, [error |-> "No valid line items provided"])
    ELSE SubmitOrder([rec EXCEPT !.tags = Append(@, "real-products")])
  ELSE
    LET raw == rec.items.a[rec.idx]
        key == HandleOf(raw)
    IN  IF ~Survives(raw) THEN Run([rec EXCEPT !.idx = @ + 1], c, e)
        ELSE IF key = <<>> THEN InternalError(Enter(rec, c, key), "Missing product handle")
        ELSE IF CacheHit(c, key) THEN Run(Take(Enter(rec, c, key), c[key]), c, e)
        ELSE Lookup(Enter(rec, c, key), key)

\* (a variant that appends the tag of the other branch)
BuildLegacyRealTag(rec) ==
  LET price == ToNumber(rec.totalPrice)
  IN  IF BadPrice(price) THEN InternalError(rec, "totalPrice must be a valid number > 0")
      ELSE SubmitOrder([rec EXCEPT !.lineItems = <<LegacyLineItem(price)>>,
                                   !.tags = Append(@, "real-products")])

\* the legacy branch: buildLegacyLineItem, the tag, the order creation
BuildLegacy(rec) ==
  LET price == ToNumber(rec.totalPrice)
  IN  IF BadPrice(price) THEN InternalError(rec, "totalPrice must be a valid number > 0")
      ELSE SubmitOrder([rec EXCEPT !.lineItems = <<LegacyLineItem(price)>>,
                                   !.tags = Append(@, "legacy-quote")])

\* the line-item branch of the handler
BuildLineItems(rec, c, e) ==
  IF UseRealItems(rec.items) THEN Run([rec EXCEPT !.site = "build", !.idx = 1], c, e)
  ELSE BuildLegacy(rec)

\* (a variant that does not test the recipients)
NotifyInternalAnyway(rec, c, e) ==
  IF UseRealItems(rec.items) THEN Run([rec EXCEPT !.site = "notify", !.idx = 1], c, e)
  ELSE Compose(rec, e)

\* the notification, from the recipients to sendMail or to the response
NotifyInternal(rec, c, e) ==
  IF rec.recipients = <<>> THEN Success(rec)
  ELSE IF UseRealItems(rec.items) THEN Run([rec EXCEPT !.site = "notify", !.idx = 1], c, e)
  ELSE Compose(rec, e)

NoneDone == \A r \in Requests : req[r].pc # "done"

Methods == {"POST", "OPTIONS", "GET"}

\* the fields of the body a request of these items reads before its first await
PriceChoices(items) == IF UseRealItems(items) THEN {Unread} ELSE PriceInputs

\* A request arrives: the handler from its entry to its first network call,
\* or to its response.
Receive(r) ==
  /\ NoneDone
  /\ req[r].pc = "idle"
  /\ \E method \in Methods :
       LET rec == req[r] IN
       IF method = "OPTIONS" THEN
         req' = [req EXCEPT ![r] = Respond(rec, 200, [end |-> TRUE])]
       ELSE IF method # "POST" THEN
         req' = [req EXCEPT ![r] = Respond(rec, 405, [error |-> "Method not allowed"])]
       ELSE \E parses \in BOOLEAN :
         IF ~parses THEN
           req' = [req EXCEPT ![r] = InternalError(rec, "JSON.parse")]
         ELSE IF env.shopify = "missing" THEN
           req' = [req EXCEPT ![r] =
                     Respond(rec, 500, [error |-> "Server configuration error"])]
         ELSE \E items \in ItemsInputs : \E totalPrice \in PriceChoices(items) :
           req' = [req EXCEPT ![r] =
                     BuildLineItems([rec EXCEPT !.items = items, !.totalPrice = totalPrice,
                                                !.tags = <<"calculator-order", "calculator-type">>],
                                    cache, env)]
  /\ UNCHANGED <<cache, env, calc>>

\* A reply of `replies` to a catalog lookup arrives: shopifyGraphql after its
\* fetch, the rest of resolveVariantByHandle, and the handler on from the
\* call site.
CatalogReplyOf(r, replies) ==
  /\ NoneDone
  /\ req[r].pc = "awaitCatalog"
  /\ \E reply \in replies :
       LET rec == [req[r] EXCEPT !.catalogReply = reply]
           resolved == Resolved(rec.key, reply.product)
           stored == Store(cache, rec.key, resolved)
       IN  IF GraphqlError(reply) # "" THEN
             /\ req' = [req EXCEPT ![r] = InternalError(rec, GraphqlError(reply))]
             /\ UNCHANGED cache
           ELSE IF NotFound(reply.product) THEN
             /\ req' = [req EXCEPT ![r] =
                          InternalError(rec, "Product not found or has no variants")]
             /\ UNCHANGED cache
           ELSE
             /\ cache' = stored
             /\ req' = [req EXCEPT ![r] = Run(Take(rec, resolved), stored, env)]
  /\ UNCHANGED <<env, calc>>

CatalogReply(r) == CatalogReplyOf(r, CatalogReplies(req[r].key))

\* The reply to the order creation arrives: the upstream failure, or the
\* notification up to sendMail and the response.
OrderReply(r) ==
  /\ NoneDone
  /\ req[r].pc = "awaitOrder"
  /\ \E reply \in OrderReplies(r) :
       LET rec == [req[r] EXCEPT !.orderReply = reply] IN
       IF ~Ok(reply.status) THEN
         req' = [req EXCEPT ![r] =
                   Respond(rec, reply.status,
                           [error |-> "Shopify draft order failed",
                            details |-> Details(reply)])]
       ELSE \E mailTo \in NotifyInputs :
         req' = [req EXCEPT ![r] =
                   NotifyInternal(
                     [rec EXCEPT !.notifyEmails = mailTo.notifyEmails,
                                 !.accountManagerEmail = mailTo.accountManagerEmail,
                                 !.recipients = Recipients(mailTo.notifyEmails,
                                                           mailTo.accountManagerEmail)],
                     cache, env)]
  /\ UNCHANGED <<cache, env, calc>>

\* sendMail delivers or raises; the catch logs the error and the handler answers
MailReply(r) ==
  /\ NoneDone
  /\ req[r].pc = "awaitMail"
  /\ \E outcome \in {"sent", "failed"} :
       req' = [req EXCEPT ![r] = Success([req[r] EXCEPT !.mail = outcome])]
  /\ UNCHANGED <<cache, env, calc>>

\* The response has been sent and the request is over: its record is dropped
\* before anything else happens, so a finished request is seen in exactly one
\* state, the one after its response.
Retire(r) ==
  /\ req[r].pc = "done"
  /\ req' = [req EXCEPT ![r] = NewRequest]
  /\ UNCHANGED <<cache, env, calc>>

Next ==
  \E r \in Requests :
    \/ Receive(r)
    \/ CatalogReply(r)
    \/ OrderReply(r)
    \/ MailReply(r)
    \/ Retire(r)

Spec == Init /\ [][Next]_vars

-----------------------------------------------------------------------------
(* The handler when every outbound call completes or errors: the requests    *)
(* overlap as before, with `items` of up to MaxLiveItems entries.            *)

\* a request arrives whose `items`, when an array, is a short one
ReceiveShort(r) ==
  /\ Receive(r)
  /\ IsArray(req'[r].items) => Len(req'[r].items.a) <= MaxLiveItems

NextLive ==
  \E r \in Requests :
    \/ ReceiveShort(r)
    \/ CatalogReply(r)
    \/ OrderReply(r)
    \/ MailReply(r)
    \/ Retire(r)

\* The reply to a call that stays awaited arrives (another request's response
\* holds it back for a step only), and a finished handler returns.
Fairness ==
  \A r \in Requests :
    /\ SF_vars(CatalogReply(r))
    /\ SF_vars(OrderReply(r))
    /\ SF_vars(MailReply(r))
    /\ WF_vars(Retire(r))

SpecLive == Init /\ [][NextLive]_vars /\ Fairness

-----------------------------------------------------------------------------
(* One request at a time against a catalog that may write the identifier of  *)
(* a variant in any way: a string or a number, numeric or not, of any sign.  *)

IdValues ==
  { Str(<<"1", "1", "1">>), Str(<<"0">>), Str(<<"a", "b", "c">>),
    Str(<<"-", "7">>), Str(<<>>), Fin(0), Fin(0 - 700), Fin(11100), Fin(1250) }

IdReplies(key) ==
  CatalogReplies(key)
  \cup {Reply(200, FALSE, Product(<<"M">>, id)) : id \in IdValues}

CatalogReplyAnyId(r) == CatalogReplyOf(r, IdReplies(req[r].key))

NextIds ==
  \E r \in {1} :
    \/ Receive(r)
    \/ CatalogReplyAnyId(r)
    \/ OrderReply(r)
    \/ MailReply(r)
    \/ Retire(r)

SpecIds == Init /\ [][NextIds]_vars

-----------------------------------------------------------------------------
(* The recipient list as a function of its inputs: every notifyEmails of up  *)
(* to MaxEmails entries and every accountManagerEmail.                       *)

EmailValues ==
  { AbsentStr,
    <<"A", "@", "x", ".", "c", "o", "m">>,
    <<"a", "@", "x", ".", "c", "o", "m">>,
    <<"b", "a", "d">>,
    <<"b", "@", "x", ".", "c", "o", "m">>,
    <<" ", "B", "@", "x", ".", "c", "o", "m", " ">> }

InitEmails ==
  /\ cache = [key \in Keys |-> NotCached]
  /\ env = [shopify |-> "set", smtp |-> "set"]
  /\ req = [r \in Requests |-> NewRequest]
  /\ \E notifyEmails \in {NotArray} \cup {Arr(l) : l \in SeqsUpTo(EmailValues, MaxEmails)},
        accountManagerEmail \in EmailValues :
       calc = [op |-> "recipients", notifyEmails |-> notifyEmails,
               accountManagerEmail |-> accountManagerEmail, out |-> Unread]

\* const recipients = uniqEmails([...notifyEmails, accountManagerEmail])
ComputeRecipients ==
  /\ calc.op = "recipients"
  /\ calc.out = Unread
  /\ calc' = [calc EXCEPT !.out = Arr(Recipients(calc.notifyEmails, calc.accountManagerEmail))]
  /\ UNCHANGED <<cache, env, req>>

NextEmails == ComputeRecipients

SpecEmails == InitEmails /\ [][NextEmails]_vars

-----------------------------------------------------------------------------
(* The label of a calculatorData key as a function of the key: every key of  *)
(* up to MaxKeyLen characters, and the two keys of the documentation.        *)

BinderKits == <<"b", "i", "n", "d", "e", "r", "K", "i", "t", "s">>
TotalCost == <<"t", "o", "t", "a", "l", "_", "c", "o", "s", "t">>

KeyChars == {"b", "K", "_", " "}

LabelKeys == SeqsUpTo(KeyChars, MaxKeyLen) \cup {BinderKits, TotalCost}

InitLabels ==
  /\ cache = [key \in Keys |-> NotCached]
  /\ env = [shopify |-> "set", smtp |-> "set"]
  /\ req = [r \in Requests |-> NewRequest]
  /\ \E key \in LabelKeys : calc = [op |-> "label", key |-> key, out |-> Unread]

\* const label = String(k).replace(...)...join(" ")
ComputeLabel ==
  /\ calc.op = "label"
  /\ calc.out = Unread
  /\ calc' = [calc EXCEPT !.out = Str(Label(calc.key))]
  /\ UNCHANGED <<cache, env, req>>

NextLabels == ComputeLabel

SpecLabels == InitLabels /\ [][NextLabels]_vars

-----------------------------------------------------------------------------
(* buildLegacyLineItem as a function of its arguments and of the clock.      *)

DataKeys == {TimestampKey, CalculatorKey, BinderKits, TotalCost}

\* the value calculatorData holds under a key
DataValue(key) == [k |-> "value", of |-> key]

\* the objects of up to MaxDataKeys entries: an object holds a key once
DataObjects ==
  { Entries([i \in 1..Len(ks) |-> Entry(ks[i], DataValue(ks[i]))]) :
      ks \in {l \in SeqsUpTo(DataKeys, MaxDataKeys) :
                \A i \in 1..Len(l), j \in 1..Len(l) : l[i] = l[j] => i = j} }

DataInputs == {Undefined, Text} \cup DataObjects

TypeInputs == {<<>>, <<"r", "o", "o", "f">>}

LegacyPrices == PriceInputs \cup {Fin(5), Fin(1999)}

Clock == {1, 2}

InitLegacy ==
  /\ cache = [key \in Keys |-> NotCached]
  /\ env = [shopify |-> "set", smtp |-> "set"]
  /\ req = [r \in Requests |-> NewRequest]
  /\ \E calculatorType \in TypeInputs, calculatorData \in DataInputs,
        totalPrice \in LegacyPrices :
       calc = [op |-> "legacy", calculatorType |-> calculatorType,
               calculatorData |-> calculatorData, totalPrice |-> totalPrice,
               now |-> 0, out |-> Unread]

\* buildLegacyLineItem(calculatorType, calculatorData, totalPrice)
ComputeLegacy ==
  /\ calc.op = "legacy"
  /\ calc.out = Unread
  /\ \E now \in Clock :
       calc' = [calc EXCEPT !.now = now,
                            !.out = buildLegacyLineItem(calc.calculatorType,
                                      calc.calculatorData, calc.totalPrice, now)]
  /\ UNCHANGED <<cache, env, req>>

NextLegacy == ComputeLegacy

SpecLegacy == InitLegacy /\ [][NextLegacy]_vars

-----------------------------------------------------------------------------
(* Properties *)

Done(r) == req[r].pc = "done"

\* the number of calls of request r to a collaborator (for a lookup: of `key`)
Calls(r, to, key) ==
  Cardinality({i \in DOMAIN req[r].calls :
                 req[r].calls[i].to = to /\ req[r].calls[i].key = key})

\* every call of resolveVariantByHandle so far, by request and position
Resolutions == {<<r, i>> : r \in Requests, i \in 1..(2 * (MaxItems + 1))}
Known(x) == x[2] \in DOMAIN req[x[1]].res
Res(x) == req[x[1]].res[x[2]]

\* C1 (as stated): of two resolutions of one handle that both returned a
\* result, at most one issued a catalog lookup, and they returned the same
\* result.
C1_SecondResolutionIssuesNoLookup ==
  \A x \in Resolutions, y \in Resolutions :
    (/\ x # y /\ Known(x) /\ Known(y)
     /\ Res(x).key = Res(y).key
     /\ Res(x).result # NotCached /\ Res(y).result # NotCached)
    => /\ ~(Res(x).issued = 1 /\ Res(y).issued = 1)
       /\ Res(x).result = Res(y).result

\* C1 (amended): a resolution that starts when the handle's entry is in the
\* cache (an earlier resolution of the handle has completed) issues no catalog
\* lookup and returns that entry, which is still the cache's entry.
C1_CachedResolutionIssuesNoLookup ==
  \A x \in Resolutions :
    (Known(x) /\ Res(x).cached # NotCached)
    => /\ Res(x).issued = 0
       /\ Res(x).result = Res(x).cached
       /\ cache[Res(x).key] = Res(x).cached

C1_Witness ==
  \E x \in Resolutions, y \in Resolutions :
    /\ Known(x) /\ Known(y) /\ x[1] # y[1]
    /\ Res(x).key = Res(y).key
    /\ Res(x).issued = 1 /\ Res(x).result # NotCached
    /\ Res(y).cached # NotCached /\ Res(y).issued = 0 /\ Res(y).result = Res(x).result

\* C2: a request issues at most one order-creation call and, for each handle,
\* at most one catalog lookup, the notification's listing included.
C2_AtMostOneCallPerHandle ==
  \A r \in Requests :
    /\ Calls(r, "order", <<>>) <= 1
    /\ \A key \in Keys : Calls(r, "catalog", key) <= 1

\* a finished request that resolved one handle twice for its line items and
\* twice again for its notification, with a single lookup
C2_Witness ==
  \E r \in Requests :
    /\ Done(r) /\ req[r].response.status = 200
    /\ Len(req[r].lineItems) = 2 /\ Len(req[r].rows) = 2
    /\ req[r].rows[1].handle = req[r].rows[2].handle
    /\ Calls(r, "catalog", req[r].rows[1].handle) = 1
    /\ Calls(r, "order", <<>>) = 1
    /\ Calls(r, "mail", <<>>) = 1

\* An item as the specification describes a usable one: an entry with a handle
\* that is not empty after trimming and a finite quantity above zero.
Usable(raw) ==
  /\ raw.k = "object"
  /\ \E i \in 1..Len(raw.handle) : raw.handle[i] # " "
  /\ raw.quantity.k = "fin"
  /\ raw.quantity.v > 0

NoUsableItem(items) ==
  IsArray(items) /\ \A i \in 1..Len(items.a) : ~Usable(items.a[i])

\* C3 (as stated): a request with items = [] or with every item filtered out
\* issues no order-creation call and ends with an error response.
C3_NoUsableItemIsRejected ==
  \A r \in Requests :
    NoUsableItem(req[r].items)
    => /\ Calls(r, "order", <<>>) = 0
       /\ Done(r) => req[r].response.status >= 400

\* C3 (amended): a request with a non-empty items list of which every item is
\* filtered out ends with 400 and without an order-creation call, and no
\* order is ever submitted with zero line items.
C3_AllFilteredIsRejected ==
  \A r \in Requests :
    /\ (Done(r) /\ NoUsableItem(req[r].items) /\ req[r].items.a # <<>>)
       => req[r].response.status = 400 /\ Calls(r, "order", <<>>) = 0
    /\ Calls(r, "order", <<>>) > 0 => req[r].lineItems # <<>>

C3_Witness ==
  \E r \in Requests :
    /\ Done(r) /\ NoUsableItem(req[r].items) /\ Len(req[r].items.a) = 2
    /\ \E i \in 1..2 : req[r].items.a[i].k = "object" /\ HandleOf(req[r].items.a[i]) # <<>>
    /\ req[r].response.status = 400

\* the request took the legacy branch
Legacy(r) == req[r].totalPrice # Unread

\* a totalPrice that is missing, not numeric, not finite or not above zero
InvalidPrice(p) == p.k # "fin" \/ p.v <= 0

\* C4: a legacy request with an invalid totalPrice ends with 400 and has issued
\* no outbound call.
C4_InvalidPriceIs400 ==
  \A r \in Requests :
    (Done(r) /\ Legacy(r) /\ InvalidPrice(req[r].totalPrice))
    => req[r].response.status = 400 /\ req[r].calls = <<>>

\* the order creation of the request returned a success status
OrderCreated(r) ==
  /\ req[r].orderReply # Unread
  /\ req[r].orderReply.status \in 200..299

\* C5: once the order creation has succeeded, the response is the 200 success
\* response.
C5_SuccessIsFinal ==
  \A r \in Requests :
    (Done(r) /\ OrderCreated(r))
    => /\ req[r].response.status = 200
       /\ "success" \in DOMAIN req[r].response.body

\* the order creation of the request returned a status that is not a success
OrderFailed(r) ==
  /\ req[r].orderReply # Unread
  /\ req[r].orderReply.status \notin 200..299

\* C6: when the order creation fails, the response carries the upstream status
\* and error details, the order creation is the request's last outbound call,
\* and no notification is composed or sent.
C6_OrderFailureIsTerminal ==
  \A r \in Requests :
    OrderFailed(r)
    => /\ Done(r)
       /\ req[r].response.status = req[r].orderReply.status
       /\ req[r].response.body.error = "Shopify draft order failed"
       /\ req[r].response.body.details.of = req[r].orderReply.status
       /\ req[r].response.body.details.k =
            (IF req[r].orderReply.errors THEN "errors" ELSE "json")
       /\ req[r].calls[Len(req[r].calls)] = OrderCall
       /\ Calls(r, "mail", <<>>) = 0
       /\ req[r].recipients = <<>> /\ req[r].rows = <<>> /\ req[r].mail = ""

C6_Witness ==
  \E r \in Requests :
    /\ OrderFailed(r) /\ req[r].orderReply.status = 422
    /\ req[r].response.status = 422
    /\ Len(req[r].calls) = 3

\* the latest catalog lookup of the request, issued for its line items, got a
\* status that is not a success, or an errors list
LookupFailed(r) ==
  /\ req[r].catalogReply # Unread
  /\ req[r].site = "build"
  /\ req[r].catalogReply.status \notin 200..299 \/ req[r].catalogReply.errors

\* C7: a request whose catalog lookup fails answers with the catalog's own
\* status code and its details.
C7_LookupFailureKeepsStatus ==
  \A r \in Requests :
    (Done(r) /\ LookupFailed(r))
    => /\ req[r].response.status = req[r].catalogReply.status
       /\ "details" \in DOMAIN req[r].response.body

\* C8: a 200 success response carries the invoice URL, id, name and total price
\* of the order record the order creation returned, and always a checkout URL.
C8_SuccessCarriesCheckoutUrl ==
  \A r \in Requests :
    (/\ Done(r) /\ req[r].response.status = 200
     /\ "success" \in DOMAIN req[r].response.body)
    => LET body == req[r].response.body
           record == req[r].orderReply.draft_order
       IN  /\ body.success
           /\ body.checkoutUrl # Undefined
           /\ record # NoRecord
           /\ body.checkoutUrl = record.invoice_url
           /\ body.draftOrderId = record.id
           /\ body.orderName = record.name
           /\ body.totalPrice = record.total_price

ModeTags == {"real-products", "legacy-quote"}

\* C9: a submitted draft order carries exactly one mode tag; with real-products
\* it has at least one line item and each is the variant_id of a resolved
\* variant with a quantity; with legacy-quote it has exactly one line item, the
\* priced one.
C9_OneModePerPayload ==
  \A r \in Requests :
    Calls(r, "order", <<>>) > 0
    => LET tags == req[r].tags
           lines == req[r].lineItems
       IN  /\ Cardinality({i \in DOMAIN tags : tags[i] \in ModeTags}) = 1
           /\ tags[Len(tags)] \in ModeTags
           /\ tags[Len(tags)] = "real-products"
              => /\ Len(lines) >= 1
                 /\ \A i \in DOMAIN lines :
                      /\ DOMAIN lines[i] = {"variant_id", "quantity"}
                      /\ \E key \in Keys :
                           /\ cache[key] # NotCached
                           /\ cache[key].variantId = lines[i].variant_id
           /\ tags[Len(tags)] = "legacy-quote"
              => /\ Len(lines) = 1
                 /\ DOMAIN lines[1] = {"price", "quantity", "requires_shipping", "taxable"}
                 /\ lines[1].quantity = 1

\* two requests with their orders submitted, one of each mode
C9_Witness ==
  \E r \in Requests, q \in Requests :
    /\ Calls(r, "order", <<>>) = 1 /\ Calls(q, "order", <<>>) = 1
    /\ req[r].tags[3] = "real-products" /\ Len(req[r].lineItems) = 2
    /\ req[q].tags[3] = "legacy-quote"

-----------------------------------------------------------------------------
(* Properties of the recipient list (under SpecEmails) *)

\* the entries handed to uniqEmails: notifyEmails, then accountManagerEmail
GivenEmails ==
  (IF IsArray(calc.notifyEmails) THEN calc.notifyEmails.a ELSE <<>>)
  \o <<calc.accountManagerEmail>>

UpperCase == {"A", "B", "X"}

\* a non-empty string without a space at either end, without an upper-case
\* letter, and with an @
PlausibleAddress(e) ==
  /\ e # <<>>
  /\ e[1] # " " /\ e[Len(e)] # " "
  /\ \A i \in 1..Len(e) : e[i] \notin UpperCase
  /\ \E i \in 1..Len(e) : e[i] = "@"

ExampleNotify ==
  Arr(<< <<"A", "@", "x", ".", "c", "o", "m">>,
         <<"a", "@", "x", ".", "c", "o", "m">>,
         <<"b", "a", "d">> >>)
ExampleManager == <<"b", "@", "x", ".", "c", "o", "m">>
ExampleRecipients ==
  << <<"a", "@", "x", ".", "c", "o", "m">>, <<"b", "@", "x", ".", "c", "o", "m">> >>

\* C10: the recipient list holds only trimmed, lowercased entries with an @,
\* holds none twice, holds every given entry that is one after trimming and
\* lowercasing, and for the example is a@x.com and b@x.com.
C10_RecipientsDedupedAndFiltered ==
  (calc.op = "recipients" /\ calc.out # Unread)
  => LET out == calc.out.a IN
     /\ \A i \in 1..Len(out) : PlausibleAddress(out[i])
     /\ \A i \in 1..Len(out), j \in 1..Len(out) : out[i] = out[j] => i = j
     /\ \A i \in 1..Len(GivenEmails) :
          PlausibleAddress(ToLowerCase(Trim(GivenEmails[i])))
          => \E j \in 1..Len(out) : out[j] = ToLowerCase(Trim(GivenEmails[i]))
     /\ \A j \in 1..Len(out) :
          \E i \in 1..Len(GivenEmails) : out[j] = ToLowerCase(Trim(GivenEmails[i]))
     /\ (calc.notifyEmails = ExampleNotify /\ calc.accountManagerEmail = ExampleManager)
        => out = ExampleRecipients

C10_Witness ==
  /\ calc.op = "recipients" /\ calc.out # Unread
  /\ calc.notifyEmails = ExampleNotify /\ calc.accountManagerEmail = ExampleManager
  /\ calc.out.a = ExampleRecipients

-----------------------------------------------------------------------------
(* Properties of buildLegacyLineItem (under SpecLegacy) *)

\* the number, in hundredths, that a string of the form d...d.dd denotes, or
\* -1 when the string is not of that form
TwoDecimals(s) ==
  IF /\ Len(s) >= 4
     /\ s[Len(s) - 2] = "."
     /\ \A i \in (1..Len(s)) \ {Len(s) - 2} : DigitOf(s[i]) >= 0
  THEN 100 * NaturalOf(SubSeq(s, 1, Len(s) - 3))
       + NaturalOf(SubSeq(s, Len(s) - 1, Len(s)))
  ELSE 0 - 1

\* the entries of calculatorData whose key is not reserved, in their order
KeptEntries(data) ==
  IF data.k = "object"
  THEN SelectSeq(data.entries,
                 LAMBDA e : e.key # TimestampKey /\ e.key # CalculatorKey)
  ELSE <<>>

\* C11: for a finite totalPrice above zero buildLegacyLineItem returns one
\* line item of quantity 1, not shipped, taxable, whose price is totalPrice
\* written with two decimals (1250 is "1250.00"), and whose properties are
\* "Calculator Type", then one entry per calculatorData key that is not
\* reserved, in order, then "Quote Date".
C11_LegacyLineItemShape ==
  (calc.op = "legacy" /\ calc.out # Unread /\ ~InvalidPrice(calc.totalPrice))
  => LET item == calc.out
         props == item.properties
         kept == KeptEntries(calc.calculatorData)
     IN  /\ item.k = "lineItem"
         /\ item.quantity = 1
         /\ item.requires_shipping = FALSE
         /\ item.taxable = TRUE
         /\ TwoDecimals(item.price) = calc.totalPrice.v
         /\ calc.totalPrice = Fin(125000)
            => item.price = <<"1", "2", "5", "0", ".", "0", "0">>
         /\ Len(props) = Len(kept) + 2
         /\ props[1].name = CalculatorTypeName
         /\ props[Len(props)].name = QuoteDateName
         /\ props[Len(props)].value = IsoString(calc.now)
         /\ \A i \in 1..Len(kept) :
              /\ props[i + 1].name = Label(kept[i].key)
              /\ props[i + 1].value = StringOf(kept[i].value)

\* the price 1250 with a calculatorData of timestamp, binderKits, total_cost
C11_Witness ==
  /\ calc.op = "legacy" /\ calc.out # Unread
  /\ calc.totalPrice = Fin(125000)
  /\ calc.calculatorData.k = "object"
  /\ Len(calc.calculatorData.entries) = 3
  /\ calc.calculatorData.entries[1].key = TimestampKey
  /\ calc.out.k = "lineItem"
  /\ calc.out.price = <<"1", "2", "5", "0", ".", "0", "0">>
  /\ Len(calc.out.properties) = 4
  /\ calc.out.properties[2].name = <<"B", "i", "n", "d", "e", "r", " ", "K", "i", "t", "s">>

-----------------------------------------------------------------------------
(* Properties of the label formatter (under SpecLabels) *)

IsLower(c) == \E i \in 1..Len(Lower) : Lower[i] = c

\* the letters of a string, lowercased: its spaces and underscores dropped
RECURSIVE Letters(_)
Letters(s) ==
  IF s = <<>> THEN <<>>
  ELSE (IF Head(s) \in {" ", "_"} THEN <<>>
        ELSE IF IsCapital(Head(s))
             THEN <<Lower[CHOOSE i \in 1..Len(Upper) : Upper[i] = Head(s)]>>
             ELSE <<Head(s)>>)
       \o Letters(Tail(s))

\* C13: the label of a key is a string without an underscore and without a
\* space at either end; it has the key's letters in the key's order; every
\* word of it starts with a letter that is not lower case; a capital inside
\* it stands after a space; binderKits gives "Binder Kits", total_cost gives
\* "Total Cost", and the empty key gives the empty string.
C13_LabelIsTitleCase ==
  (calc.op = "label" /\ calc.out # Unread)
  => LET out == calc.out.s IN
     /\ \A i \in 1..Len(out) : out[i] # "_"
     /\ out # <<>> => out[1] # " " /\ out[Len(out)] # " "
     /\ Letters(out) = Letters(calc.key)
     /\ \A i \in 1..Len(out) :
          (out[i] # " " /\ (i = 1 \/ out[i - 1] = " ")) => ~IsLower(out[i])
     /\ \A i \in 2..Len(out) : IsCapital(out[i]) => out[i - 1] = " "
     /\ calc.key = BinderKits
        => out = <<"B", "i", "n", "d", "e", "r", " ", "K", "i", "t", "s">>
     /\ calc.key = TotalCost
        => out = <<"T", "o", "t", "a", "l", " ", "C", "o", "s", "t">>
     /\ calc.key = <<>> => out = <<>>

C13_Witness ==
  /\ calc.op = "label" /\ calc.out # Unread
  /\ calc.key = TotalCost
  /\ calc.out = Str(<<"T", "o", "t", "a", "l", " ", "C", "o", "s", "t">>)

-----------------------------------------------------------------------------
(* Properties of the line items, the mode and the order of the calls *)

\* the items of a request that the specification calls usable, in input order
UsableItems(r) ==
  IF IsArray(req[r].items) THEN SelectSeq(req[r].items.a, Usable) ELSE <<>>

\* n is an integer nearest to the quantity q (held in hundredths)
Nearest(q, n) == 100 * n - q.v <= 50 /\ q.v - 100 * n <= 50

\* the order of the request was submitted with the real-products tag
RealSubmitted(r) ==
  /\ Calls(r, "order", <<>>) > 0
  /\ req[r].tags[Len(req[r].tags)] = "real-products"

\* C12: the line items of a submitted real-products order are, in input
\* order, one per surviving item: the variant of the item's trimmed handle and
\* the item's quantity rounded to the nearest integer (2.7 gives 3).
C12_LineItemsRoundedInOrder ==
  \A r \in Requests :
    RealSubmitted(r)
    => LET lines == req[r].lineItems
           kept == UsableItems(r)
       IN  /\ Len(lines) = Len(kept)
           /\ \A i \in 1..Len(kept) :
                /\ Nearest(kept[i].quantity, lines[i].quantity)
                /\ kept[i].quantity = Fin(270) => lines[i].quantity = 3
                /\ cache[Trim(kept[i].handle)] # NotCached
                /\ lines[i].variant_id = cache[Trim(kept[i].handle)].variantId

\* a submitted order of two surviving items of different handles, the first
\* of quantity 2.7
C12_Witness ==
  \E r \in Requests :
    /\ RealSubmitted(r)
    /\ Len(UsableItems(r)) = 2
    /\ UsableItems(r)[1].quantity = Fin(270)
    /\ Trim(UsableItems(r)[1].handle) # Trim(UsableItems(r)[2].handle)
    /\ req[r].lineItems[1].quantity = 3
    /\ req[r].lineItems[1].variant_id # req[r].lineItems[2].variant_id

\* the request has read its items
ItemsRead(r) == req[r].items # Unread

\* the items are an array with at least one entry
NonEmptyArray(items) == IsArray(items) /\ items.a # <<>>

\* the order of the request was submitted as a legacy quote: the tag and the
\* single priced line item
LegacySubmitted(r) ==
  /\ Calls(r, "order", <<>>) = 1
  /\ req[r].tags[Len(req[r].tags)] = "legacy-quote"
  /\ Len(req[r].lineItems) = 1
  /\ "price" \in DOMAIN req[r].lineItems[1]

\* C14 (as stated): a request takes the real-products branch only with an
\* item that survives the filter, and a request without one whose totalPrice
\* is valid (the real-products branch does not read the totalPrice: whatever
\* it is) is submitted as a legacy quote.
C14_ModeByUsableItems ==
  \A r \in Requests :
    (ItemsRead(r) /\ Done(r) /\ UsableItems(r) = <<>>
     /\ (Legacy(r) => ~InvalidPrice(req[r].totalPrice)))
    => LegacySubmitted(r)

\* C14 (amended): the branch is chosen by `items` being a non-empty array.
\* A non-empty array never reads the totalPrice and never gives a legacy
\* quote, and its order is submitted only with an item that survives, else
\* the answer is 400; anything else reads the totalPrice and, when it is
\* valid, is submitted as a legacy quote.
C14_ModeByNonEmptyArray ==
  \A r \in Requests :
    ItemsRead(r)
    => /\ NonEmptyArray(req[r].items)
          => /\ ~Legacy(r)
             /\ \A i \in DOMAIN req[r].tags : req[r].tags[i] # "legacy-quote"
             /\ Calls(r, "order", <<>>) > 0
                => RealSubmitted(r) /\ UsableItems(r) # <<>>
             /\ (Done(r) /\ UsableItems(r) = <<>>)
                => req[r].response.status = 400
       /\ ~NonEmptyArray(req[r].items)
          => /\ Legacy(r)
             /\ \A i \in DOMAIN req[r].tags : req[r].tags[i] # "real-products"
             /\ ~InvalidPrice(req[r].totalPrice) => LegacySubmitted(r)

\* one request with items = [] submitted as a legacy quote, another answered
\* 400 for a non-empty array without a usable item
C14_Witness ==
  \E r \in Requests, q \in Requests :
    /\ ItemsRead(r) /\ req[r].items = Arr(<<>>) /\ LegacySubmitted(r)
    /\ ItemsRead(q) /\ NonEmptyArray(req[q].items) /\ UsableItems(q) = <<>>
    /\ Done(q) /\ req[q].response.status = 400

\* the position in `items` of the first usable item of a trimmed handle
FirstUse(r, key) ==
  CHOOSE i \in 1..(Len(req[r].items.a) + 1) :
    /\ i <= Len(req[r].items.a)
       => Usable(req[r].items.a[i]) /\ Trim(req[r].items.a[i].handle) = key
    /\ \A j \in 1..(i - 1) :
         ~(Usable(req[r].items.a[j]) /\ Trim(req[r].items.a[j].handle) = key)

\* a reply to a lookup with which the resolution fails
FailedReply(reply) ==
  \/ reply.status \notin 200..299
  \/ reply.errors
  \/ reply.product.k = "null"
  \/ Falsy(reply.product.legacyResourceId)

\* C15: a request's resolutions run one after the other (one starts when the
\* one before has returned); its lookups are for handles of usable items, in
\* input order, and come before its order creation; the order creation is
\* issued once every usable item is resolved, and never after a failed
\* lookup; the mail is sent last, after the order creation has succeeded.
C15_CallsInOrder ==
  \A r \in Requests :
    LET calls == req[r].calls
        res == req[r].res
    IN  /\ \A i \in DOMAIN res, j \in DOMAIN res :
             i < j => res[i].result # NotCached
        /\ \A i \in DOMAIN calls :
             calls[i].to = "catalog"
             => /\ FirstUse(r, calls[i].key) <= Len(req[r].items.a)
                /\ \A j \in DOMAIN calls :
                     /\ (j < i /\ calls[j].to = "catalog")
                        => FirstUse(r, calls[j].key) < FirstUse(r, calls[i].key)
                     /\ calls[j].to = "order" => i < j
        /\ RealSubmitted(r)
           => /\ Len(req[r].lineItems) = Len(UsableItems(r))
              /\ \A i \in 1..Len(UsableItems(r)) :
                   /\ res[i].key = Trim(UsableItems(r)[i].handle)
                   /\ res[i].result # NotCached
        /\ (req[r].catalogReply # Unread /\ FailedReply(req[r].catalogReply))
           => Done(r) /\ Calls(r, "order", <<>>) = 0 /\ Calls(r, "mail", <<>>) = 0
        /\ \A i \in DOMAIN calls :
             calls[i].to = "mail"
             => /\ i = Len(calls)
                /\ OrderCreated(r)
                /\ \E j \in 1..(i - 1) : calls[j].to = "order"

\* a request of two handles: two lookups, the order creation, the mail
C15_Witness ==
  \E r \in Requests :
    /\ Len(req[r].calls) = 4
    /\ req[r].calls[1].to = "catalog" /\ req[r].calls[2].to = "catalog"
    /\ req[r].calls[1].key = Trim(UsableItems(r)[1].handle)
    /\ req[r].calls[2].key = Trim(UsableItems(r)[2].handle)
    /\ req[r].calls[3].to = "order" /\ req[r].calls[4].to = "mail"

\* the request has computed its recipients
RecipientsRead(r) == req[r].notifyEmails # Unread

\* C18: a request sends at most one mail, and only after its order creation
\* succeeded and with a recipient; without a recipient it builds no
\* notification, sends no mail and answers with the success response.
C18_MailAtMostOnce ==
  \A r \in Requests :
    /\ Calls(r, "mail", <<>>) <= 1
    /\ Calls(r, "mail", <<>>) = 1
       => OrderCreated(r) /\ RecipientsRead(r) /\ req[r].recipients # <<>>
    /\ req[r].mail # "" => Calls(r, "mail", <<>>) = 1 \/ req[r].mail = "skipped"
    /\ (RecipientsRead(r) /\ req[r].recipients = <<>>)
       => /\ OrderCreated(r)
          /\ Calls(r, "mail", <<>>) = 0
          /\ req[r].rows = <<>> /\ req[r].mail = ""
          /\ Len(req[r].res) <= Len(req[r].lineItems)
          /\ Done(r)
          /\ req[r].response.status = 200
          /\ req[r].response.body.success

\* one request answered 200 without a recipient, another with its one mail sent
C18_Witness ==
  \E r \in Requests, q \in Requests :
    /\ RecipientsRead(r) /\ req[r].recipients = <<>>
    /\ Done(r) /\ req[r].response.status = 200 /\ Calls(r, "mail", <<>>) = 0
    /\ Calls(q, "mail", <<>>) = 1 /\ Len(req[q].recipients) = 2

\* C20: every line item of a submitted real-products order has a quantity of
\* at least 1.
C20_QuantityAtLeastOne ==
  \A r \in Requests :
    RealSubmitted(r)
    => \A i \in DOMAIN req[r].lineItems : req[r].lineItems[i].quantity >= 1

-----------------------------------------------------------------------------
(* Properties of the variant identifier (under SpecIds) *)

\* a number that is an integer above zero
PositiveInteger(n) == n.k = "fin" /\ n.v > 0 /\ n.v % 100 = 0

\* C16: the variantId of every variant a resolution returned, of every cache
\* entry and of every line item is a positive integer (a catalog answer with
\* another identifier makes the resolution fail, so that nothing of it is
\* stored or submitted).
C16_VariantIdPositiveInteger ==
  /\ \A key \in Keys :
       cache[key] # NotCached => PositiveInteger(cache[key].variantId)
  /\ \A r \in Requests :
       /\ \A i \in DOMAIN req[r].res :
            req[r].res[i].result # NotCached
            => PositiveInteger(req[r].res[i].result.variantId)
       /\ \A i \in DOMAIN req[r].lineItems :
            "variant_id" \in DOMAIN req[r].lineItems[i]
            => PositiveInteger(req[r].lineItems[i].variant_id)

-----------------------------------------------------------------------------
(* Properties of the cache under overlapping requests *)

\* an entry is stored under its own handle, which is a trimmed one, and every
\* resolution that has returned holds the entry of its trimmed handle
CacheAgrees ==
  /\ \A key \in Keys :
       cache[key] # NotCached
       => cache[key].handle = key /\ Trim(key) = key /\ key # <<>>
  /\ \A x \in Resolutions :
       (Known(x) /\ Res(x).result # NotCached)
       => /\ Res(x).key \in Keys
          /\ Res(x).result = cache[Res(x).key]

\* a step leaves every entry of the cache as it is
EntriesKept ==
  \A key \in Keys : cache[key] # NotCached => cache'[key] = cache[key]

\* C17: with the catalog unchanged and requests overlapping in any way, an
\* entry of the cache is stored under the trimmed handle, is never removed
\* and never replaced by a different value, and every resolution of a handle
\* returns the entry of that handle, whichever request wrote it last.
C17_CacheStableUnderRaces == []CacheAgrees /\ [][EntriesKept]_vars

\* two requests that both looked one handle up (the second write replaced the
\* first), one of them having written it with a space after it
C17_Witness ==
  \E x \in Resolutions, y \in Resolutions :
    /\ Known(x) /\ Known(y) /\ x[1] # y[1]
    /\ Res(x).key = Res(y).key
    /\ Res(x).issued = 1 /\ Res(y).issued = 1
    /\ Res(x).result # NotCached /\ Res(y).result = Res(x).result
    /\ \E i \in DOMAIN req[x[1]].items.a :
         /\ req[x[1]].items.a[i].k = "object"
         /\ req[x[1]].items.a[i].handle # Res(x).key
         /\ Trim(req[x[1]].items.a[i].handle) = Res(x).key

-----------------------------------------------------------------------------
(* Properties of the response (under SpecLive) *)

\* a request that has arrived and a request that has answered
Arrived(r) == req[r].pc # "idle"

\* a request has written at most one response, and exactly one when its
\* handler has returned; a response with a failure status has a JSON body with
\* an `error` field
OneResponse ==
  \A r \in Requests :
    /\ req[r].sent <= 1
    /\ Done(r) <=> req[r].sent = 1
    /\ Done(r) <=> req[r].response # NoResponse
    /\ (Done(r) /\ req[r].response.status >= 400)
       => "error" \in DOMAIN req[r].response.body
    /\ Done(r)
       => \/ req[r].response.status \in {200, 400, 405, 500}
          \/ /\ OrderFailed(r)
             /\ req[r].response.status = req[r].orderReply.status

\* C19: a request whose outbound calls all complete ends with exactly one
\* response, and a failure response carries a JSON body with an error field.
C19_ExactlyOneResponse ==
  /\ []OneResponse
  /\ \A r \in Requests : Arrived(r) ~> Done(r)

\* a request answered with a forwarded upstream status after a lookup and the
\* order creation
C19_Witness ==
  \E r \in Requests :
    /\ Done(r) /\ req[r].sent = 1
    /\ req[r].response.status = 503
    /\ req[r].response.body.error = "Shopify draft order failed"
    /\ Len(req[r].calls) = 2

-----------------------------------------------------------------------------
(* Properties of a failed resolution *)

\* the step is the arrival of the reply to the lookup request r awaits
LookupReturns(r) == req[r].pc = "awaitCatalog" /\ req'[r] # req[r]

\* A step changes the cache only when a lookup returns a product with a
\* variant, and then only the entry of the handle looked up, to the variant the
\* resolution returns; a step in which a lookup fails ends the request and
\* leaves the cache as it was.
OnlySuccessStores ==
  /\ \A r \in Requests :
       (LookupReturns(r) /\ FailedReply(req'[r].catalogReply))
       => /\ cache' = cache
          /\ req'[r].pc = "done"
          /\ req'[r].response.status = 500
          /\ req'[r].res[Len(req[r].res)].result = NotCached
  /\ cache' # cache
     => \E r \in Requests :
          /\ LookupReturns(r)
          /\ ~FailedReply(req'[r].catalogReply)
          /\ cache'[req[r].key] = req'[r].res[Len(req[r].res)].result
          /\ cache'[req[r].key] # NotCached
          /\ \A key \in Keys \ {req[r].key} : cache'[key] = cache[key]

\* a resolution that finds no entry for its handle issues a lookup, and one
\* that has not returned a variant has left no entry of its own
MissIssuesLookup ==
  \A x \in Resolutions :
    (Known(x) /\ Res(x).cached = NotCached)
    => /\ Res(x).key # <<>> => Res(x).issued = 1
       /\ Res(x).key = <<>> => Res(x).issued = 0 /\ Res(x).result = NotCached

\* C21: a resolution that fails (lookup error, no product, no variant, empty
\* handle) leaves the cache unchanged, only a successful one adds an entry,
\* and a resolution of a handle without an entry issues a fresh lookup.
C21_FailureLeavesCacheUnchanged == []MissIssuesLookup /\ [][OnlySuccessStores]_vars

\* a request whose lookup of one handle has just failed, the handle still
\* without an entry and the entry of another handle still in the cache
C21_Witness ==
  \E r \in Requests :
    /\ Done(r) /\ req[r].response.status = 500
    /\ req[r].catalogReply # Unread /\ FailedReply(req[r].catalogReply)
    /\ req[r].res # <<>>
    /\ req[r].res[Len(req[r].res)].issued = 1
    /\ req[r].res[Len(req[r].res)].result = NotCached
    /\ cache[req[r].key] = NotCached
    /\ \E key \in Keys : cache[key] # NotCached

====
